---- MODULE Spec2Model ----
(***************************************************************************)
(* Model of nanochat/conscious.py: the frozen dataclass ConsciousConfig,   *)
(* its validation (__post_init__), to_dict, with_overrides and the three   *)
(* factories from_dict, from_model_config and from_model.                  *)
(*                                                                         *)
(* Python values are tagged so that an int, a str and None stay distinct:  *)
(* IntV(n), StrV(s) and None.  A dict and the attribute namespace of an    *)
(* external object are functions from names to tagged values.  An instance *)
(* of the dataclass is the tuple of its three fields in declaration order. *)
(***************************************************************************)
EXTENDS Integers, Sequences, FiniteSets, TLC

VARIABLES inp, heap, last

vars == <<inp, heap, last>>

(* ------------------------------ bounds --------------------------------- *)

\* integers used as inputs range over -1..MaxInt
MaxInt == 1

\* number of ConsciousConfig instances a run may allocate
MaxObjects == 3

(* --------------------------- Python values ----------------------------- *)

None == [null |-> TRUE]

IntV(n) == [int |-> n]

StrV(s) == [str |-> s]

IsInt(v) == DOMAIN v = {"int"}

IsStr(v) == DOMAIN v = {"str"}

\* getattr(obj, name, default); hasattr(obj, name) is name \in DOMAIN obj
getattr(obj, name, default) ==
    IF name \in DOMAIN obj THEN obj[name] ELSE default

(* ---------------------------- the dataclass ---------------------------- *)

\* field names in declaration order
FIELDS == <<"reentry_steps", "ignite_topk", "gate_mode">>

FieldNames == {FIELDS[j] : j \in 1..3}

\* field defaults in declaration order
DEFAULTS == <<IntV(0), IntV(0), StrV("none")>>

VALID_GATE_MODES == <<"none", "token", "head">>

\* v in VALID_GATE_MODES (tuple membership by equality)
InValidGateModes(v) ==
    IsStr(v) /\ \E j \in 1..Len(VALID_GATE_MODES) : VALID_GATE_MODES[j] = v.str

\* __post_init__ without the ignite_topk check
post_init_NoTopk(self) ==
    IF ~IsInt(self[1]) THEN "TypeError"
    ELSE IF self[1].int < 0 THEN "ValueError"
    ELSE IF ~InValidGateModes(self[3]) THEN "ValueError"
    ELSE "ok"

\* __post_init__ without the gate_mode check
post_init_NoGate(self) ==
    IF ~IsInt(self[1]) THEN "TypeError"
    ELSE IF self[1].int < 0 THEN "ValueError"
    ELSE IF ~IsInt(self[2]) THEN "TypeError"
    ELSE IF self[2].int < 0 THEN "ValueError"
    ELSE "ok"

\* __post_init__ rejecting reentry_steps <= 0 instead of < 0
post_init_StrictPositive(self) ==
    IF ~IsInt(self[1]) THEN "TypeError"
    ELSE IF self[1].int <= 0 THEN "ValueError"
    ELSE IF ~IsInt(self[2]) THEN "TypeError"
    ELSE IF self[2].int < 0 THEN "ValueError"
    ELSE IF ~InValidGateModes(self[3]) THEN "ValueError"
    ELSE "ok"

\* __post_init__: "ok", or the exception the first failing line raises.
\* `x < 0` raises TypeError when x is None or a str.
post_init(self) ==
    IF ~IsInt(self[1]) THEN "TypeError"
    ELSE IF self[1].int < 0 THEN "ValueError"
    ELSE IF ~IsInt(self[2]) THEN "TypeError"
    ELSE IF self[2].int < 0 THEN "ValueError"
    ELSE IF ~InValidGateModes(self[3]) THEN "ValueError"
    ELSE "ok"

\* ConsciousConfig(**kwargs): the generated __init__ binds each field to its
\* keyword or its default, then runs __post_init__.  Every caller passes
\* keywords among the three field names only.
ConsciousConfig(kwargs) ==
    LET self == [j \in 1..3 |-> getattr(kwargs, FIELDS[j], DEFAULTS[j])]
        st   == post_init(self)
    IN  [status |-> st, value |-> IF st = "ok" THEN self ELSE <<>>]

\* to_dict with the two integer fields exchanged
to_dict_Swapped(self) ==
    ("reentry_steps" :> self[2]) @@ ("ignite_topk" :> self[1])
        @@ ("gate_mode" :> self[3])

to_dict(self) ==
    ("reentry_steps" :> self[1]) @@ ("ignite_topk" :> self[2])
        @@ ("gate_mode" :> self[3])

\* with_overrides testing the overrides for truth instead of `is not None`
with_overrides_Truthy(self, reentry_steps, ignite_topk, gate_mode) ==
    LET data0 == to_dict(self)
        data1 == IF reentry_steps # None /\ reentry_steps # IntV(0)
                 THEN [data0 EXCEPT !["reentry_steps"] = reentry_steps]
                 ELSE data0
        data2 == IF ignite_topk # None /\ ignite_topk # IntV(0)
                 THEN [data1 EXCEPT !["ignite_topk"] = ignite_topk]
                 ELSE data1
        data3 == IF gate_mode # None /\ gate_mode # StrV("")
                 THEN [data2 EXCEPT !["gate_mode"] = gate_mode]
                 ELSE data2
    IN  ConsciousConfig(data3)

with_overrides(self, reentry_steps, ignite_topk, gate_mode) ==
    LET data0 == to_dict(self)
        data1 == IF reentry_steps # None
                 THEN [data0 EXCEPT !["reentry_steps"] = reentry_steps]
                 ELSE data0
        data2 == IF ignite_topk # None
                 THEN [data1 EXCEPT !["ignite_topk"] = ignite_topk]
                 ELSE data1
        data3 == IF gate_mode # None
                 THEN [data2 EXCEPT !["gate_mode"] = gate_mode]
                 ELSE data2
    IN  ConsciousConfig(data3)

\* from_dict that keeps keys holding None
from_dict_KeepsNone(data) ==
    LET d        == IF data = None THEN <<>> ELSE data
        filtered == [key \in {k \in FieldNames : k \in DOMAIN d} |-> d[key]]
    IN  ConsciousConfig(filtered)

\* from_dict that never reads gate_mode
from_dict_DropsGate(data) ==
    LET d        == IF data = None THEN <<>> ELSE data
        filtered == [key \in {k \in {"reentry_steps", "ignite_topk"} :
                                 k \in DOMAIN d /\ d[k] # None} |-> d[key]]
    IN  ConsciousConfig(filtered)

from_dict(data) ==
    LET d        == IF data = None THEN <<>> ELSE data
        filtered == [key \in {k \in FieldNames :
                                 k \in DOMAIN d /\ d[k] # None} |-> d[key]]
    IN  ConsciousConfig(filtered)

\* from_model_config that never looks up ignite_topk
from_model_config_SkipsTopk(config) ==
    IF config = None THEN ConsciousConfig(<<>>)
    ELSE LET payload == [key \in {k \in {"reentry_steps", "gate_mode"} :
                                     k \in DOMAIN config} |-> config[key]]
         IN  ConsciousConfig(payload)

\* from_model_config that drops None attributes the way from_dict does
from_model_config_FiltersNone(config) ==
    IF config = None THEN ConsciousConfig(<<>>)
    ELSE LET payload == [key \in {k \in FieldNames :
                                     k \in DOMAIN config /\ config[k] # None}
                                 |-> config[key]]
         IN  ConsciousConfig(payload)

from_model_config(config) ==
    IF config = None THEN ConsciousConfig(<<>>)
    ELSE LET payload == [key \in {k \in FieldNames : k \in DOMAIN config}
                                 |-> config[key]]
         IN  ConsciousConfig(payload)

\* from_model handing the model itself to from_model_config
from_model_PassesModel(model) == from_model_config(model)

from_model(model) == from_model_config(getattr(model, "config", None))

(* ------------------------------ inputs --------------------------------- *)

Ints == (-1)..MaxInt

Strs == {"none", "token", "head", "bogus"}

\* the values a dict entry or an attribute may hold
Values == {IntV(n) : n \in Ints} \cup {StrV(s) : s \in Strs} \cup {None}

\* dicts / attribute namespaces over the three field names
FieldBags == UNION {[S -> Values] : S \in SUBSET FieldNames}

\* ... optionally carrying one unrecognized name
Mappings == {fb @@ ub : fb \in FieldBags,
                        ub \in {<<>>, ("unknown_key" :> IntV(99))}}

Inputs == Mappings \cup {None}

\* keywords acceptable to ConsciousConfig(...): int, int, str
IsCtorKwargs(kw) ==
    /\ kw # None
    /\ DOMAIN kw \subseteq FieldNames
    /\ \A k \in DOMAIN kw :
          IF k = "gate_mode" THEN IsStr(kw[k]) ELSE IsInt(kw[k])

\* keywords acceptable to with_overrides(...): Optional[int] x2, Optional[str]
IsOverrides(kw) ==
    /\ kw # None
    /\ DOMAIN kw \subseteq FieldNames
    /\ \A k \in DOMAIN kw :
          kw[k] = None \/ (IF k = "gate_mode" THEN IsStr(kw[k]) ELSE IsInt(kw[k]))

\* instances a caller may already hold when it calls with_overrides or to_dict
Receivers == {<<IntV(r), IntV(k), StrV(VALID_GATE_MODES[g])>> :
                  r \in 0..MaxInt, k \in 0..MaxInt, g \in 1..3}

(* --------------------------- state machine ----------------------------- *)

NoCall == [op |-> "none", status |-> "none", ret |-> 0, self |-> 0,
           before |-> <<>>, model |-> None, val |-> <<>>, live |-> 0]

Init ==
    /\ inp \in Inputs
    /\ heap \in {<<>>} \cup
                (IF IsOverrides(inp) THEN {<<c>> : c \in Receivers} ELSE {})
    /\ last = NoCall

\* a call that builds an instance: on success the new object is allocated,
\* on an exception nothing is
Return(op, r, self, model) ==
    /\ heap' = IF r.status = "ok" THEN Append(heap, r.value) ELSE heap
    /\ last' = [op |-> op, status |-> r.status,
                ret |-> IF r.status = "ok" THEN Len(heap) + 1 ELSE 0,
                self |-> self,
                before |-> IF self = 0 THEN <<>> ELSE heap[self],
                model |-> model, val |-> <<>>, live |-> Len(heap)]
    /\ UNCHANGED inp

Construct ==
    /\ Len(heap) < MaxObjects
    /\ IsCtorKwargs(inp)
    /\ Return("construct", ConsciousConfig(inp), 0, None)

ToDict ==
    /\ \E i \in DOMAIN heap :
          last' = [op |-> "to_dict", status |-> "ok", ret |-> 0, self |-> i,
                   before |-> heap[i], model |-> None,
                   val |-> to_dict(heap[i]), live |-> Len(heap)]
    /\ UNCHANGED <<inp, heap>>

WithOverrides ==
    /\ Len(heap) < MaxObjects
    /\ IsOverrides(inp)
    /\ \E i \in DOMAIN heap :
          Return("with_overrides",
                 with_overrides(heap[i],
                                getattr(inp, "reentry_steps", None),
                                getattr(inp, "ignite_topk", None),
                                getattr(inp, "gate_mode", None)),
                 i, None)

FromDict ==
    /\ Len(heap) < MaxObjects
    /\ Return("from_dict", from_dict(inp), 0, None)

FromModelConfig ==
    /\ Len(heap) < MaxObjects
    /\ Return("from_model_config", from_model_config(inp), 0, None)

\* the model is None, an object without a config attribute, or an object
\* whose config attribute is inp
FromModel ==
    /\ Len(heap) < MaxObjects
    /\ \E model \in {None, <<>>, ("config" :> inp)} :
          Return("from_model", from_model(model), 0, model)

Next ==
    \/ Construct
    \/ ToDict
    \/ WithOverrides
    \/ FromDict
    \/ FromModelConfig
    \/ FromModel

Spec == Init /\ [][Next]_vars

(* ----------------------------- properties ------------------------------ *)

DefaultInstance == <<IntV(0), IntV(0), StrV("none")>>

\* the three constraints of the data model, stated on an instance
Valid(c) ==
    /\ IsInt(c[1]) /\ c[1].int >= 0
    /\ IsInt(c[2]) /\ c[2].int >= 0
    /\ IsStr(c[3]) /\ c[3].str \in {"none", "token", "head"}

\* index of a field name in the instance
Idx(k) == CHOOSE j \in 1..3 : FIELDS[j] = k

\* the names of a mapping that are recognized and hold a non-null value
Supplied(m) == {k \in FieldNames : k \in DOMAIN m /\ m[k] # None}

\* a mapping restricted to a set of names
Restrict(m, S) == [k \in S |-> m[k]]

\* the outcome of the last call as a result record
Outcome == [status |-> last.status,
            value |-> IF last.status = "ok" THEN heap[last.ret] ELSE <<>>]

\* C1: every instance that any construction path has returned, after any
\* sequence of calls, has reentry_steps >= 0, ignite_topk >= 0 and gate_mode
\* among "none", "token", "head".
C1_EveryInstanceValid == \A i \in DOMAIN heap : Valid(heap[i])

C1_Witness ==
    /\ last.op = "with_overrides" /\ last.status = "ok"
    /\ Len(heap) = 3 /\ last.ret = 3 /\ last.self = 2
    /\ heap[1] = <<IntV(1), IntV(0), StrV("head")>>
    /\ heap[2] = <<IntV(1), IntV(1), StrV("head")>>
    /\ heap[3] = <<IntV(1), IntV(1), StrV("head")>>

\* C2: direct construction with integers r, k and a string g succeeds iff
\* r >= 0, k >= 0 and g is a valid gate mode; on success the instance holds
\* r, k, g (omitted arguments taking 0, 0, "none"); otherwise it raises
\* ValueError and no instance is produced.
C2_DirectConstruction ==
    last.op = "construct" =>
        LET r  == getattr(inp, "reentry_steps", IntV(0)).int
            k  == getattr(inp, "ignite_topk", IntV(0)).int
            g  == getattr(inp, "gate_mode", StrV("none")).str
            ok == r >= 0 /\ k >= 0 /\ g \in {"none", "token", "head"}
        IN  /\ (last.status = "ok") <=> ok
            /\ ok => /\ heap[last.ret] = <<IntV(r), IntV(k), StrV(g)>>
                     /\ Len(heap) = last.live + 1
            /\ ~ok => /\ last.status = "ValueError"
                      /\ last.ret = 0
                      /\ Len(heap) = last.live

C2_Witness ==
    /\ last.op = "construct" /\ last.status = "ok"
    /\ inp = ("reentry_steps" :> IntV(0)) @@ ("gate_mode" :> StrV("token"))
    /\ heap[last.ret] = <<IntV(0), IntV(0), StrV("token")>>

\* C3: to_dict returns a mapping with exactly the three field names holding
\* the instance's field values, and from_dict of that mapping succeeds and
\* returns an instance equal to the original in all three fields.
C3_RoundTrip ==
    /\ last.op = "to_dict" =>
          LET c == heap[last.self]
              d == last.val
          IN  /\ DOMAIN d = {"reentry_steps", "ignite_topk", "gate_mode"}
              /\ d["reentry_steps"] = c[1]
              /\ d["ignite_topk"] = c[2]
              /\ d["gate_mode"] = c[3]
              /\ from_dict(d) = [status |-> "ok", value |-> c]
    /\ last.op = "from_dict" =>
          \A i \in 1..last.live :
              inp = to_dict(heap[i]) =>
                  last.status = "ok" /\ heap[last.ret] = heap[i]

C3_Witness ==
    /\ last.op = "to_dict"
    /\ heap[last.self] = <<IntV(1), IntV(0), StrV("head")>>
    /\ last.val["reentry_steps"] = IntV(1)
    /\ last.val["gate_mode"] = StrV("head")

\* C4: a successful with_overrides returns an instance whose each field is
\* the override when one was supplied with a non-null value (0 included) and
\* the receiver's field otherwise; with no arguments the result equals the
\* receiver; the receiver's fields are unchanged by the call.
C4_WithOverridesFields ==
    last.op = "with_overrides" =>
        /\ heap[last.self] = last.before
        /\ inp = <<>> => last.status = "ok" /\ heap[last.ret] = last.before
        /\ last.status = "ok" =>
              \A j \in 1..3 :
                  heap[last.ret][j] =
                      IF FIELDS[j] \in DOMAIN inp /\ inp[FIELDS[j]] # None
                      THEN inp[FIELDS[j]]
                      ELSE last.before[j]

C4_Witness ==
    /\ last.op = "with_overrides" /\ last.status = "ok"
    /\ last.before = <<IntV(1), IntV(1), StrV("token")>>
    /\ inp = ("reentry_steps" :> IntV(0)) @@ ("ignite_topk" :> None)
    /\ heap[last.ret] = <<IntV(0), IntV(1), StrV("token")>>
    /\ heap[last.self] = <<IntV(1), IntV(1), StrV("token")>>

\* C5: when any supplied non-null override is invalid (negative
\* reentry_steps, negative ignite_topk, gate_mode outside the fixed set),
\* with_overrides raises ValueError, returns no instance even when the other
\* overrides are valid, and leaves the receiver's fields as they were.
C5_InvalidOverrideFails ==
    (/\ last.op = "with_overrides"
     /\ \E k \in Supplied(inp) :
           IF k = "gate_mode"
           THEN inp[k].str \notin {"none", "token", "head"}
           ELSE inp[k].int < 0)
    => /\ last.status = "ValueError"
       /\ last.ret = 0
       /\ Len(heap) = last.live
       /\ heap[last.self] = last.before

C5_Witness ==
    /\ last.op = "with_overrides" /\ last.status = "ValueError"
    /\ inp = ("reentry_steps" :> IntV(1)) @@ ("gate_mode" :> StrV("bogus"))
    /\ heap[last.self] = <<IntV(0), IntV(1), StrV("head")>>
    /\ Len(heap) = 1

\* C6: from_dict(d) returns what direct construction returns (or fails as it
\* fails) when given exactly the recognized keys present in d with a
\* non-null value; unrecognized keys never affect the result, a key holding
\* null yields the field's default, and from_dict(None) = from_dict({}) =
\* the default instance.
C6_FromDict ==
    last.op = "from_dict" =>
        LET d == IF inp = None THEN <<>> ELSE inp
            S == Supplied(d)
        IN  /\ Outcome = ConsciousConfig(Restrict(d, S))
            /\ last.status = "ok" =>
                  \A j \in 1..3 :
                      heap[last.ret][j] =
                          IF FIELDS[j] \in S THEN d[FIELDS[j]] ELSE DEFAULTS[j]
            /\ Outcome = from_dict(Restrict(d, DOMAIN d \cap FieldNames))
            /\ (inp = None \/ inp = <<>>) =>
                  Outcome = [status |-> "ok", value |-> DefaultInstance]

C6_Witness ==
    /\ last.op = "from_dict" /\ last.status = "ok"
    /\ inp = ("reentry_steps" :> IntV(1)) @@ ("ignite_topk" :> None)
                @@ ("unknown_key" :> IntV(99))
    /\ heap[last.ret] = <<IntV(1), IntV(0), StrV("none")>>

\* C7: every failure raised by any path that constructs an instance is of
\* the single kind InvalidArgument (ValueError), for any mapping, any
\* override set and any external object whose attributes hold an integer, a
\* string or null.
C7_OnlyInvalidArgument == last.status \in {"none", "ok", "ValueError"}

\* C8: from_model_config(None) returns the default instance; for an object
\* exposing a subset S of the field names with valid values the result holds
\* the object's values on S and the defaults elsewhere; attributes with
\* other names never affect the result.
C8_FromModelConfig ==
    last.op = "from_model_config" =>
        /\ inp = None => Outcome = [status |-> "ok", value |-> DefaultInstance]
        /\ inp # None =>
              LET S == DOMAIN inp \cap FieldNames
              IN  /\ (\A k \in S :
                         IF k = "gate_mode"
                         THEN IsStr(inp[k]) /\ inp[k].str \in {"none", "token", "head"}
                         ELSE IsInt(inp[k]) /\ inp[k].int >= 0)
                     => /\ last.status = "ok"
                        /\ \A j \in 1..3 :
                              heap[last.ret][j] =
                                  IF FIELDS[j] \in S THEN inp[FIELDS[j]]
                                  ELSE DEFAULTS[j]
                  /\ Outcome = from_model_config(Restrict(inp, S))

C8_Witness ==
    /\ last.op = "from_model_config" /\ last.status = "ok"
    /\ inp = ("gate_mode" :> StrV("token")) @@ ("ignite_topk" :> IntV(1))
                @@ ("unknown_key" :> IntV(99))
    /\ heap[last.ret] = <<IntV(0), IntV(1), StrV("token")>>

\* C9: from_model(m) returns the same result or failure as
\* from_model_config(m.config) when m has a config attribute, and the
\* default instance when m is None, has no config attribute, or its config
\* is None.
C9_FromModel ==
    last.op = "from_model" =>
        LET m == last.model
        IN  IF m # None /\ "config" \in DOMAIN m /\ m["config"] # None
            THEN /\ Outcome = from_model_config(m["config"])
                 /\ last.status = "ok" =>
                       \A j \in 1..3 :
                           heap[last.ret][j] =
                               getattr(m["config"], FIELDS[j], DEFAULTS[j])
            ELSE Outcome = [status |-> "ok", value |-> DefaultInstance]

C9_Witness ==
    /\ last.op = "from_model" /\ last.status = "ok"
    /\ last.model = ("config" :> (("ignite_topk" :> IntV(1))))
    /\ heap[last.ret] = <<IntV(0), IntV(1), StrV("none")>>

\* C10: for an object none of whose exposed field attributes is null,
\* from_model_config(obj) returns the same instance or failure as from_dict
\* of the mapping of its exposed field attributes; when an exposed attribute
\* is null, from_dict falls back to that field's default while
\* from_model_config passes the null to the constructor and returns no
\* instance.
C10_FromModelConfigVsFromDict ==
    (last.op = "from_model_config" /\ inp # None) =>
        LET S == DOMAIN inp \cap FieldNames
            m == Restrict(inp, S)
        IN  IF \A k \in S : inp[k] # None
            THEN Outcome = from_dict(m)
            ELSE /\ last.status # "ok"
                 /\ last.ret = 0
                 /\ Len(heap) = last.live
                 /\ from_dict(m) = ConsciousConfig(Restrict(m, Supplied(m)))
                 /\ from_dict(m).status = "ok" =>
                       \A k \in S :
                           inp[k] = None =>
                               from_dict(m).value[Idx(k)] = DEFAULTS[Idx(k)]

C10_Witness ==
    /\ last.op = "from_model_config" /\ last.status = "TypeError"
    /\ inp = ("reentry_steps" :> None) @@ ("gate_mode" :> StrV("head"))
    /\ from_dict(inp) = [status |-> "ok",
                         value |-> <<IntV(0), IntV(0), StrV("head")>>]
    /\ Len(heap) = last.live

====
